---- MODULE Spec2Model ----
(***************************************************************************)
(* BlueLedger backend: the geo-tagged media ingestion pipeline,            *)
(* POST /upload/multiple/image of backend/src/index.ts, with the Post      *)
(* schema of backend/src/model.ts.                                         *)
(*                                                                         *)
(* A request passes through the multer/multer-s3 middleware (one storage   *)
(* upload per file part, key `${Date.now()}-${originalname}`), then the    *)
(* route handler (files check, Post assembly with the GeoJSON normalizer,  *)
(* post.save()), and ends with one HTTP response.                          *)
(***************************************************************************)
EXTENDS Integers, Sequences, FiniteSets, TLC

VARIABLES
    clock,      \* the reading Date.now() returns
    bucket,     \* the S3 bucket: a set of [key, owner], one object per key
    posts,      \* the Post collection, in insertion order
    req,        \* per request: the submitted multipart fields and file parts
    pc,         \* per request: the stage it is in
    files,      \* per request: req.files as multer leaves it
    doc,        \* per request: the Post document built by `new Post({...})`
    responses,  \* per request: the responses sent, in order
    geojson,    \* normalizer on its own: the value of the geojson field
    result      \* normalizer on its own: <<>>, then <<its outcome>>

vars == <<clock, bucket, posts, req, pc, files, doc, responses, geojson, result>>

(***************************************************************************)
(* Bounds of the model.                                                    *)
(***************************************************************************)
MaxClock == 1
MaxFeatures == 2

(***************************************************************************)
(* JavaScript values.  Every value carries its type tag `t`; a number's    *)
(* `v` is its canonical decimal text, or "NaN" / "Infinity".               *)
(***************************************************************************)
Undefined == [t |-> "undefined"]
Null == [t |-> "null"]
Str(s) == [t |-> "string", v |-> s]
Num(s) == [t |-> "number", v |-> s]
Arr(a) == [t |-> "array", a |-> a]
\* a string held as its sequence of characters (title, description)
Text(c) == [t |-> "string", c |-> c]
Geometry(type, coordinates) == [t |-> "object", type |-> type, coordinates |-> coordinates]
Feature(geometry) == [t |-> "object", geometry |-> geometry]
FeatureCollection(features) == [t |-> "object", features |-> features]

NaN == Num("NaN")

\* StringToNumber of the strings the model uses: surrounding white space is
\* dropped, the empty string is 0, a decimal literal is its value, the
\* literal Infinity is Infinity, anything else is NaN.
StringToNumber(s) ==
    CASE s = "88.3" -> Num("88.3")
      [] s = "22.5" -> Num("22.5")
      [] s = " 22.5 " -> Num("22.5")
      [] s = "" -> Num("0")
      [] s = "Infinity" -> Num("Infinity")
      [] OTHER -> NaN

\* Number(x)
ToNumber(x) ==
    CASE x.t = "number" -> x
      [] x.t = "string" -> StringToNumber(x.v)
      [] x.t = "null" -> Num("0")
      [] x.t = "array" /\ Len(x.a) = 0 -> Num("0")
      [] x.t = "array" /\ Len(x.a) = 1 /\ x.a[1].t = "number" -> x.a[1]
      [] x.t = "array" /\ Len(x.a) = 1 /\ x.a[1].t = "string" -> StringToNumber(x.a[1].v)
      [] OTHER -> NaN

\* Number.isNaN(x)
IsNaN(x) == x.t = "number" /\ x.v = "NaN"

\* coordinates[i], 0-based as in the source; only called on a value that is
\* neither undefined nor null (those throw before the read)
Index(x, i) ==
    IF x.t = "array" /\ i + 1 <= Len(x.a) THEN x.a[i + 1] ELSE Undefined

(***************************************************************************)
(* The geometry normalizer: the `locations` expression of the handler.     *)
(* An outcome is [ok, error, locations]; a throw is ok = FALSE with the    *)
(* error thrown.                                                           *)
(***************************************************************************)
Thrown(e) == [ok |-> FALSE, error |-> e, locations |-> <<>>]
Returned(locs) == [ok |-> TRUE, error |-> "none", locations |-> locs]

\* mutant: only the longitude is checked
InvalidPointLngOnly(lng, lat) == IsNaN(lng)

\* line 194: the check on the two coerced components of a Point
InvalidPoint(lng, lat) == IsNaN(lng) \/ IsNaN(lat)

\* mutant: the pair is returned as [lat, lng]
PointLocationSwapped(type, lng, lat) == [type |-> type, coordinates |-> Arr(<<lat, lng>>)]

\* lines 198-201: the location returned for a Point
PointLocation(type, lng, lat) == [type |-> type, coordinates |-> Arr(<<lng, lat>>)]

\* mutant: every geometry is coerced the way a Point is
OtherLocationCoerced(type, coordinates) ==
    [type |-> type,
     coordinates |-> Arr(<<ToNumber(Index(coordinates, 0)), ToNumber(Index(coordinates, 1))>>)]

\* lines 204-207: the location returned for any other geometry type
OtherLocation(type, coordinates) == [type |-> type, coordinates |-> coordinates]

\* The callback of features.map for one feature: [ok, error, location].
NormalizeFeature(feature) ==
    IF feature.t # "object" \/ feature.geometry.t # "object"
    THEN [ok |-> FALSE, error |-> "TypeError", location |-> Undefined]
    ELSE LET type == feature.geometry.type
             coordinates == feature.geometry.coordinates
         IN  IF type = Str("Point")
             THEN IF coordinates.t \in {"undefined", "null"}
                  THEN [ok |-> FALSE, error |-> "TypeError", location |-> Undefined]
                  ELSE LET lng == ToNumber(Index(coordinates, 0))
                           lat == ToNumber(Index(coordinates, 1))
                       IN  IF InvalidPoint(lng, lat)
                           THEN [ok |-> FALSE, error |-> "Invalid Point coordinates",
                                 location |-> Undefined]
                           ELSE [ok |-> TRUE, error |-> "none",
                                 location |-> PointLocation(type, lng, lat)]
             ELSE [ok |-> TRUE, error |-> "none",
                   location |-> OtherLocation(type, coordinates)]

\* geojson.features.map(...) on the decoded value: the first feature that
\* throws ends the map.
Normalize(g) ==
    IF g.t # "object" \/ g.features.t # "array"
    THEN Thrown("TypeError")
    ELSE LET fs == g.features.a
             out == [i \in 1..Len(fs) |-> NormalizeFeature(fs[i])]
             bad == {i \in 1..Len(fs) : ~out[i].ok}
         IN  IF bad = {}
             THEN Returned([i \in 1..Len(fs) |-> out[i].location])
             ELSE Thrown(out[CHOOSE i \in bad : \A j \in bad : i <= j].error)

(***************************************************************************)
(* Sample geometries, by name, and the feature built from each.            *)
(***************************************************************************)
Pair(a, b) == Arr(<<Num(a), Num(b)>>)
Ring == Arr(<<Pair("88.3", "22.5"), Pair("88.4", "22.5"),
              Pair("88.4", "22.6"), Pair("88.3", "22.5")>>)

GeometryNames ==
    {"PointStr", "PointNum", "PointAlt", "PointPadded", "PointNull",
     "PointLngAbc", "PointLatAbc", "PointShort", "PointInf", "PointNoCoords",
     "LineString", "LineStringStr", "LineNoCoords", "Polygon", "MultiPoint",
     "NoType", "NoGeometry"}

SampleGeometry(name) ==
    CASE name = "PointStr" ->
           Geometry(Str("Point"), Arr(<<Str("88.3"), Str("22.5")>>))
      [] name = "PointNum" -> Geometry(Str("Point"), Pair("22.5", "88.3"))
      [] name = "PointAlt" ->
           Geometry(Str("Point"), Arr(<<Num("88.3"), Num("22.5"), Num("10")>>))
      [] name = "PointPadded" ->
           Geometry(Str("Point"), Arr(<<Num("88.3"), Str(" 22.5 ")>>))
      [] name = "PointNull" -> Geometry(Str("Point"), Arr(<<Null, Num("22.5")>>))
      [] name = "PointLngAbc" ->
           Geometry(Str("Point"), Arr(<<Str("abc"), Str("22.5")>>))
      [] name = "PointLatAbc" ->
           Geometry(Str("Point"), Arr(<<Num("88.3"), Str("abc")>>))
      [] name = "PointShort" -> Geometry(Str("Point"), Arr(<<Num("88.3")>>))
      [] name = "PointInf" ->
           Geometry(Str("Point"), Arr(<<Str("Infinity"), Num("22.5")>>))
      [] name = "PointNoCoords" -> Geometry(Str("Point"), Undefined)
      [] name = "LineString" ->
           Geometry(Str("LineString"),
                    Arr(<<Pair("88.3", "22.5"), Pair("88.4", "22.6")>>))
      [] name = "LineStringStr" ->
           Geometry(Str("LineString"),
                    Arr(<<Arr(<<Str("88.3"), Str("22.5")>>),
                          Arr(<<Str("abc"), Str("22.6")>>)>>))
      [] name = "LineNoCoords" -> Geometry(Str("LineString"), Undefined)
      [] name = "Polygon" -> Geometry(Str("Polygon"), Arr(<<Ring>>))
      [] name = "MultiPoint" ->
           Geometry(Str("MultiPoint"), Arr(<<Pair("88.3", "22.5")>>))
      [] name = "NoType" -> Geometry(Undefined, Pair("88.3", "22.5"))
      [] OTHER -> Undefined

Features(names) == Arr([i \in 1..Len(names) |-> Feature(SampleGeometry(names[i]))])

RECURSIVE SeqsUpTo(_, _)
SeqsUpTo(S, n) ==
    IF n = 0 THEN {<<>>}
    ELSE LET shorter == SeqsUpTo(S, n - 1)
         IN  shorter \cup {Append(q, x) : q \in {p \in shorter : Len(p) = n - 1}, x \in S}

(***************************************************************************)
(* The request: multipart fields and file parts.                           *)
(***************************************************************************)
Requests == {"r1", "r2"}

\* upload.array('uploadedFile', 2): at most two file parts
MaxFiles == 2

GeoScenarioA ==
    "{\"features\":[{\"geometry\":{\"type\":\"Point\",\"coordinates\":[\"88.3\",\"22.5\"]}}]}"
GeoNoFeatures == "{\"type\":\"FeatureCollection\"}"
GeoNotJSON == "{features:"
GeoPointAbc ==
    "{\"features\":[{\"geometry\":{\"type\":\"Point\",\"coordinates\":[\"abc\",\"22.5\"]}}]}"
GeoPointInf ==
    "{\"features\":[{\"geometry\":{\"type\":\"Point\",\"coordinates\":[\"Infinity\",22.5]}}]}"
GeoPolygonPoint ==
    "{\"features\":[{\"geometry\":{\"type\":\"Polygon\",\"coordinates\":[[[88.3,22.5],[88.4,22.5],[88.4,22.6],[88.3,22.5]]]}},{\"geometry\":{\"type\":\"Point\",\"coordinates\":[22.5,88.3]}}]}"
GeoMultiPoint ==
    "{\"features\":[{\"geometry\":{\"type\":\"MultiPoint\",\"coordinates\":[[88.3,22.5]]}}]}"
GeoEmpty == "{\"features\":[]}"
GeoPointShort ==
    "{\"features\":[{\"geometry\":{\"type\":\"Point\",\"coordinates\":[88.3]}}]}"

\* JSON.parse of the texts above; any other text is a SyntaxError.
JSONparse(text) ==
    LET value(v) == [ok |-> TRUE, value |-> v]
        fc(names) == value(FeatureCollection(Features(names)))
    IN  CASE text = GeoScenarioA -> fc(<<"PointStr">>)
          [] text = GeoNoFeatures -> value(FeatureCollection(Undefined))
          [] text = GeoPointAbc -> fc(<<"PointLngAbc">>)
          [] text = GeoPointInf -> fc(<<"PointInf">>)
          [] text = GeoPolygonPoint -> fc(<<"Polygon", "PointNum">>)
          [] text = GeoMultiPoint -> fc(<<"MultiPoint">>)
          [] text = GeoEmpty -> fc(<<>>)
          [] text = GeoPointShort -> fc(<<"PointShort">>)
          [] OTHER -> [ok |-> FALSE, value |-> Undefined]

GeoTexts ==
    {GeoScenarioA, GeoNoFeatures, GeoNotJSON, GeoPointAbc, GeoPointInf,
     GeoPolygonPoint, GeoMultiPoint, GeoEmpty, GeoPointShort}

\* lines 180-209: the `locations` expression on req.body.geojson
Locations(field) ==
    IF field.t = "string"
    THEN LET parsed == JSONparse(field.v)
         IN  IF parsed.ok THEN Normalize(parsed.value) ELSE Thrown("SyntaxError")
    ELSE Normalize(field)

(***************************************************************************)
(* The Post schema (mongoose): casting and setters when the document is    *)
(* built, validation when it is saved.                                     *)
(***************************************************************************)
WhiteSpace == {" "}

RECURSIVE TrimStart(_)
TrimStart(c) == IF c # <<>> /\ Head(c) \in WhiteSpace THEN TrimStart(Tail(c)) ELSE c

RECURSIVE TrimEnd(_)
TrimEnd(c) ==
    IF c # <<>> /\ c[Len(c)] \in WhiteSpace THEN TrimEnd(SubSeq(c, 1, Len(c) - 1)) ELSE c

\* String.prototype.trim
Trim(c) == TrimEnd(TrimStart(c))

\* mutant: the schema without trim: true
UntrimmedString(x) == x

\* { type: String, required: true, trim: true }: the setter applied on construction
TrimmedString(x) == IF x.t = "string" THEN Text(Trim(x.c)) ELSE x

\* the strings that are 24 hexadecimal characters
IsObjectIdText(s) == s = "64b7f0c2a1d3e4f5a6b7c8d9"

\* { type: Schema.Types.ObjectId }: the cast applied on construction
CastObjectId(x) ==
    CASE x.t = "undefined" -> x
      [] x.t = "string" /\ IsObjectIdText(x.v) -> [t |-> "ObjectId", v |-> x.v]
      [] OTHER -> [t |-> "CastError"]

\* lines 172-179: one image per multer file
ImageOf(file) == [imageKey |-> file.key, originalName |-> file.originalname]

\* lines 169-211: new Post({...}) from the request and the normalized locations
NewPost(r, fileList, locs) ==
    [title |-> TrimmedString(r.title),
     description |-> TrimmedString(r.description),
     images |-> [i \in 1..Len(fileList) |-> ImageOf(fileList[i])],
     locations |-> locs,
     user |-> CastObjectId(r.userId)]

GeometryKinds == {"Point", "LineString", "Polygon"}

\* required: true on a String path
RequiredString(x) == x.t = "string" /\ x.c # <<>>

\* mutant: the schema without the enum
AnyKind(x) == x.t = "string"

\* type: { type: String, enum: [...], required: true } of a location
ValidKind(x) == x.t = "string" /\ x.v \in GeometryKinds

\* coordinates: { type: Mixed, required: true }
RequiredMixed(x) == x.t \notin {"undefined", "null"}

\* the paths of the document that fail validation
Validate(d) ==
    (IF RequiredString(d.title) THEN {} ELSE {"title"}) \cup
    (IF RequiredString(d.description) THEN {} ELSE {"description"}) \cup
    (IF \A i \in 1..Len(d.images) : d.images[i].imageKey # ""
        THEN {} ELSE {"images.imageKey"}) \cup
    (IF \A i \in 1..Len(d.locations) : ValidKind(d.locations[i].type)
        THEN {} ELSE {"locations.type"}) \cup
    (IF \A i \in 1..Len(d.locations) : RequiredMixed(d.locations[i].coordinates)
        THEN {} ELSE {"locations.coordinates"}) \cup
    (IF d.user.t = "ObjectId" THEN {} ELSE {"user"})

(***************************************************************************)
(* The requests the model submits.                                         *)
(***************************************************************************)
PartLists ==
    {<<>>, <<"a.png">>, <<"a.png", "a.png">>, <<"a.png", "b.png">>,
     <<"a.png", "a.png", "a.png">>}
Titles == {Undefined, Text(<<" ">>), Text(<<"F">>), Text(<<" ", "F", " ">>)}
Descriptions == {Text(<<" ">>), Text(<<"d", " ">>)}
UserIds == {Undefined, Str("mock-user"), Str("64b7f0c2a1d3e4f5a6b7c8d9")}
GeoFields == {Undefined} \cup {Str(text) : text \in GeoTexts}

Request(multipart, parts, title, description, userId, geo) ==
    [multipart |-> multipart, parts |-> parts, title |-> title,
     description |-> description, userId |-> userId, geojson |-> geo]

\* a request that is not multipart/form-data: multer passes it on untouched
NotMultipart ==
    Request(FALSE, <<>>, Text(<<"F">>), Text(<<"d">>),
            Str("64b7f0c2a1d3e4f5a6b7c8d9"), Str(GeoScenarioA))

AllInputs ==
    {NotMultipart} \cup
    {Request(TRUE, p, ti, de, u, g) :
        p \in PartLists, ti \in Titles, de \in Descriptions, u \in UserIds,
        g \in GeoFields}

\* a well-formed submission, for the request that runs beside the first
PlainInputs ==
    {Request(TRUE, <<"a.png">>, Text(<<"F">>), Text(<<"d">>),
             Str("64b7f0c2a1d3e4f5a6b7c8d9"), Str(GeoScenarioA))}

InputsOf(r) == IF r = "r1" THEN AllInputs ELSE PlainInputs

(***************************************************************************)
(* The middleware: multer with the multer-s3 storage engine.               *)
(***************************************************************************)
\* lines 47-49: the storage key of a file
Key(now, originalname) == ToString(now) \o "-" \o originalname

\* PutObject: the object under a key is replaced
Put(b, key, body) == {o \in b : o.key # key} \cup {[key |-> key, body |-> body]}

\* DeleteObject of a set of keys
Delete(b, keys) == {o \in b : o.key \notin keys}

Respond(r, status, body) ==
    responses' = [responses EXCEPT ![r] = Append(@, [status |-> status, body |-> body])]

ErrorBody(message) == [error |-> message]

\* the clock Date.now() reads advances
Tick ==
    /\ clock < MaxClock
    /\ clock' = clock + 1
    /\ UNCHANGED <<bucket, posts, req, pc, files, doc, responses, geojson, result>>

\* multer on a request with no file part: it calls next() with req.files
\* undefined when the request is not multipart, and [] when it is
MulterNoFiles(r) ==
    /\ pc[r] = "Received"
    /\ req[r].parts = <<>>
    /\ files' = [files EXCEPT ![r] = [defined |-> req[r].multipart, list |-> <<>>]]
    /\ pc' = [pc EXCEPT ![r] = "FilesUploaded"]
    /\ UNCHANGED <<clock, bucket, posts, req, doc, responses, geojson, result>>

\* the next file part is stored under its key; after the last one multer
\* calls next()
UploadFile(r) ==
    LET i == Len(files[r].list) + 1
    IN  /\ pc[r] = "Received"
        /\ i <= Len(req[r].parts)
        /\ i <= MaxFiles
        /\ LET key == Key(clock, req[r].parts[i])
           IN  /\ bucket' = Put(bucket, key, <<r, i>>)
               /\ files' = [files EXCEPT ![r] =
                     [defined |-> TRUE,
                      list |-> Append(@.list, [key |-> key,
                                               originalname |-> req[r].parts[i]])]]
        /\ pc' = [pc EXCEPT ![r] =
              IF i = Len(req[r].parts) THEN "FilesUploaded" ELSE "Received"]
        /\ UNCHANGED <<clock, posts, req, doc, responses, geojson, result>>

\* mutant: the failed part is dropped and the request is passed on
StorageFailureIgnored(r) ==
    LET i == Len(files[r].list) + 1
    IN  /\ pc[r] = "Received"
        /\ i <= Len(req[r].parts)
        /\ i <= MaxFiles
        /\ files' = [files EXCEPT ![r] = [defined |-> TRUE, list |-> @.list]]
        /\ pc' = [pc EXCEPT ![r] = "FilesUploaded"]
        /\ UNCHANGED <<clock, bucket, posts, req, doc, responses, geojson, result>>

\* the storage backend fails on the next file part
StorageFailure(r) ==
    LET i == Len(files[r].list) + 1
    IN  /\ pc[r] = "Received"
        /\ i <= Len(req[r].parts)
        /\ i <= MaxFiles
        /\ pc' = [pc EXCEPT ![r] = "Aborting"]
        /\ UNCHANGED <<clock, bucket, posts, req, files, doc, responses, geojson, result>>

\* a file part beyond the limit of upload.array: LIMIT_UNEXPECTED_FILE
LimitExceeded(r) ==
    LET i == Len(files[r].list) + 1
    IN  /\ pc[r] = "Received"
        /\ i <= Len(req[r].parts)
        /\ i > MaxFiles
        /\ pc' = [pc EXCEPT ![r] = "Aborting"]
        /\ UNCHANGED <<clock, bucket, posts, req, files, doc, responses, geojson, result>>

\* multer aborts the batch: it asks the storage engine to remove each file
\* stored so far (a removal may fail), then passes the error on; no error
\* middleware is registered, so the framework answers 500 with its own page
AbortWithError(r) ==
    /\ pc[r] = "Aborting"
    /\ \E removed \in SUBSET {files[r].list[i].key : i \in 1..Len(files[r].list)} :
          bucket' = Delete(bucket, removed)
    /\ Respond(r, 500, [html |-> "Internal Server Error"])
    /\ pc' = [pc EXCEPT ![r] = "Responded"]
    /\ UNCHANGED <<clock, posts, req, files, doc, geojson, result>>

(***************************************************************************)
(* The route handler, lines 141-226.                                       *)
(***************************************************************************)
\* lines 146-150: the files check
NoFileUploaded(f) == ~f.defined

\* lines 142-211 and 220-225: up to the await of post.save()
Handler(r) ==
    /\ pc[r] = "FilesUploaded"
    /\ IF NoFileUploaded(files[r])
       THEN /\ Respond(r, 400, ErrorBody("No file uploaded"))
            /\ pc' = [pc EXCEPT ![r] = "Responded"]
            /\ UNCHANGED doc
       ELSE LET locs == Locations(req[r].geojson)
            IN  IF locs.ok
                THEN /\ doc' = [doc EXCEPT ![r] =
                            NewPost(req[r], files[r].list, locs.locations)]
                     /\ pc' = [pc EXCEPT ![r] = "Saving"]
                     /\ UNCHANGED responses
                ELSE /\ Respond(r, 500, ErrorBody("Serving error during upload"))
                     /\ pc' = [pc EXCEPT ![r] = "Responded"]
                     /\ UNCHANGED doc
    /\ UNCHANGED <<clock, bucket, posts, req, files, geojson, result>>

\* the document as inserted: identifier and timestamps assigned
\* (`by` is a ghost field: the request whose save inserted it)
Saved(d, r) ==
    [_id |-> Len(posts) + 1, title |-> d.title, description |-> d.description,
     images |-> d.images, locations |-> d.locations, user |-> d.user,
     createdAt |-> clock, updatedAt |-> clock, by |-> r]

\* line 213 rejects: the document fails the schema's validation
SaveInvalid(r) ==
    /\ pc[r] = "Saving"
    /\ Validate(doc[r]) # {}
    /\ Respond(r, 500, ErrorBody("Serving error during upload"))
    /\ pc' = [pc EXCEPT ![r] = "Responded"]
    /\ UNCHANGED <<clock, bucket, posts, req, files, doc, geojson, result>>

\* line 213 rejects: the document store fails the insert
SaveFailure(r) ==
    /\ pc[r] = "Saving"
    /\ Validate(doc[r]) = {}
    /\ Respond(r, 500, ErrorBody("Serving error during upload"))
    /\ pc' = [pc EXCEPT ![r] = "Responded"]
    /\ UNCHANGED <<clock, bucket, posts, req, files, doc, geojson, result>>

\* lines 213-218: the insert succeeds and the saved post is returned
SaveOk(r) ==
    /\ pc[r] = "Saving"
    /\ Validate(doc[r]) = {}
    /\ posts' = Append(posts, Saved(doc[r], r))
    /\ Respond(r, 201, [message |-> "Upload successful", post |-> Saved(doc[r], r)])
    /\ pc' = [pc EXCEPT ![r] = "Responded"]
    /\ UNCHANGED <<clock, bucket, req, files, doc, geojson, result>>

Init ==
    /\ clock = 0
    /\ bucket = {}
    /\ posts = <<>>
    /\ req \in [Requests -> AllInputs \cup PlainInputs]
    /\ \A r \in Requests : req[r] \in InputsOf(r)
    /\ pc = [r \in Requests |-> "Received"]
    /\ files = [r \in Requests |-> [defined |-> FALSE, list |-> <<>>]]
    /\ doc = [r \in Requests |-> Undefined]
    /\ responses = [r \in Requests |-> <<>>]
    /\ geojson = Undefined
    /\ result = <<>>

Next ==
    \/ Tick
    \/ \E r \in Requests : MulterNoFiles(r)
    \/ \E r \in Requests : UploadFile(r)
    \/ \E r \in Requests : StorageFailure(r)
    \/ \E r \in Requests : LimitExceeded(r)
    \/ \E r \in Requests : AbortWithError(r)
    \/ \E r \in Requests : Handler(r)
    \/ \E r \in Requests : SaveInvalid(r)
    \/ \E r \in Requests : SaveFailure(r)
    \/ \E r \in Requests : SaveOk(r)

Spec == Init /\ [][Next]_vars

(***************************************************************************)
(* The normalizer on its own, over every feature list of up to             *)
(* MaxFeatures sample geometries, and over values that are no collection.  *)
(***************************************************************************)
NormInputs ==
    {Undefined, Null, FeatureCollection(Undefined), FeatureCollection(Str("x"))}
    \cup {Str(text) : text \in GeoTexts}
    \cup {FeatureCollection(Features(names)) :
             names \in SeqsUpTo(GeometryNames, MaxFeatures)}

NormalizeStep ==
    /\ result = <<>>
    /\ result' = <<Locations(geojson)>>
    /\ UNCHANGED <<clock, bucket, posts, req, pc, files, doc, responses, geojson>>

InitNorm ==
    /\ clock = 0
    /\ bucket = {}
    /\ posts = <<>>
    /\ req = [r \in Requests |-> NotMultipart]
    /\ pc = [r \in Requests |-> "Responded"]
    /\ files = [r \in Requests |-> [defined |-> FALSE, list |-> <<>>]]
    /\ doc = [r \in Requests |-> Undefined]
    /\ responses = [r \in Requests |-> <<>>]
    /\ geojson \in NormInputs
    /\ result = <<>>

NextNorm == NormalizeStep

SpecNorm == InitNorm /\ [][NextNorm]_vars

(***************************************************************************)
(* Vocabulary of the properties.                                           *)
(***************************************************************************)
Responded(r) == pc[r] = "Responded"
Status(r) == responses[r][1].status
PostsBy(r) == {i \in 1..Len(posts) : posts[i].by = r}
BucketKeys == {o.key : o \in bucket}

\* the middleware ended the request with an error (storage failure or limit)
UploadFailed(r) ==
    \/ pc[r] = "Aborting"
    \/ Responded(r) /\ "html" \in DOMAIN responses[r][1].body

\* the handler ran past the files check
Assembling(r) == files[r].defined /\ pc[r] \in {"Saving", "Responded"} /\ ~UploadFailed(r)

\* the features a geojson field submits, <<>> when it holds no feature list
SubmittedFeatures(field) ==
    LET g == IF field.t = "string" THEN JSONparse(field.v).value ELSE field
    IN  IF g.t = "object" /\ g.features.t = "array" THEN g.features.a ELSE <<>>

\* t is s without its leading and trailing white space
IsTrimOf(t, s) ==
    \E a \in 0..Len(s) : \E b \in a..Len(s) :
        /\ t = SubSeq(s, a + 1, b)
        /\ \A k \in 1..a : s[k] \in WhiteSpace
        /\ \A k \in (b + 1)..Len(s) : s[k] \in WhiteSpace
        /\ t # <<>> => t[1] \notin WhiteSpace /\ t[Len(t)] \notin WhiteSpace

Blank(x) == x.t # "string" \/ \A k \in 1..Len(x.c) : x.c[k] \in WhiteSpace

HasNaNPoint(q) == q.geojson \in {Str(GeoPointAbc), Str(GeoPointShort)}
HasInfinitePoint(q) == q.geojson = Str(GeoPointInf)

\* the validation failures of a request, as the claim lists them
ValidationFailure(q) ==
    \/ ~q.multipart \/ q.parts = <<>>
    \/ q.geojson \in {Str(GeoNotJSON), Str(GeoNoFeatures)}
    \/ q.geojson = Str(GeoPointAbc)
    \/ Blank(q.title) \/ Blank(q.description)
    \/ q.userId.t # "string" \/ q.userId.v = ""

(***************************************************************************)
(* C1: a request that fails validation (no files, geojson that does not    *)
(* parse, no features sequence, a non-numeric Point coordinate, a missing  *)
(* or empty title, description or userId) is answered with status 400.     *)
(***************************************************************************)
C1_ValidationIs400 ==
    \A r \in Requests :
        (Responded(r) /\ ~UploadFailed(r) /\ ValidationFailure(req[r]))
            => Status(r) = 400

C3_NoFilesRejected ==
    /\ \A r \in Requests :
          (Responded(r) /\ req[r].parts = <<>>) => Status(r) = 400 /\ PostsBy(r) = {}
    /\ \A i \in 1..Len(posts) : Len(posts[i].images) >= 1

(***************************************************************************)
(* C4: every request ends with exactly one response: 201 with the saved    *)
(* Post if and only if the save succeeded, otherwise a JSON body {error}   *)
(* with an error status and no Post document.                              *)
(***************************************************************************)
C4_OneResponse ==
    \A r \in Requests :
        /\ Len(responses[r]) <= 1
        /\ Cardinality(PostsBy(r)) <= 1
        /\ ~Responded(r) => responses[r] = <<>> /\ PostsBy(r) = {}
        /\ Responded(r) =>
              /\ Len(responses[r]) = 1
              /\ IF PostsBy(r) # {}
                 THEN /\ Status(r) = 201
                      /\ DOMAIN responses[r][1].body = {"message", "post"}
                      /\ \E i \in PostsBy(r) : responses[r][1].body.post = posts[i]
                 ELSE /\ Status(r) \in {400, 500}
                      /\ DOMAIN responses[r][1].body = {"error"}

(***************************************************************************)
(* C5: in a collection that normalizes, the location of every Point        *)
(* feature is {type: "Point", coordinates: [lng, lat]}: exactly the two    *)
(* numbers that the first and second input components stand for, in that   *)
(* order, also when the input gave them as numeric strings.                *)
(***************************************************************************)
C5_PointsCoerced ==
    (result # <<>> /\ result[1].ok) =>
        LET fs == SubmittedFeatures(geojson)
            locs == result[1].locations
        IN  /\ \A i \in 1..Len(fs) :
                  fs[i].geometry.type = Str("Point") =>
                      LET c == fs[i].geometry.coordinates.a
                      IN  /\ locs[i].type = Str("Point")
                          /\ locs[i].coordinates = Arr(<<ToNumber(c[1]), ToNumber(c[2])>>)
                          /\ \A k \in 1..2 :
                                /\ locs[i].coordinates.a[k].t = "number"
                                /\ locs[i].coordinates.a[k].v # "NaN"
                                /\ c[k].t = "number" => locs[i].coordinates.a[k] = c[k]
            /\ geojson = Str(GeoScenarioA) =>
                  locs = <<[type |-> Str("Point"),
                            coordinates |-> Arr(<<Num("88.3"), Num("22.5")>>)]>>

C5_Witness ==
    /\ result # <<>> /\ result[1].ok
    /\ geojson = FeatureCollection(Features(<<"Polygon", "PointStr">>))

(***************************************************************************)
(* C6, as claimed: a Point with a component that is no finite number (a    *)
(* non-numeric string, a missing component, an infinite value) fails       *)
(* normalization, and no Post is persisted for the request.                *)
(***************************************************************************)
C6_NonFiniteRejected ==
    \A r \in Requests :
        (HasNaNPoint(req[r]) \/ HasInfinitePoint(req[r])) =>
            /\ doc[r] = Undefined
            /\ PostsBy(r) = {}

(***************************************************************************)
(* The part of C6 that the code keeps: a Point with a component that       *)
(* coerces to NaN (a non-numeric string, a missing component) fails        *)
(* normalization with "Invalid Point coordinates", and no Post is          *)
(* persisted for the request.                                              *)
(***************************************************************************)
C6_NaNRejected ==
    \A r \in Requests :
        HasNaNPoint(req[r]) =>
            /\ doc[r] = Undefined
            /\ PostsBy(r) = {}
            /\ pc[r] # "Saving"
            /\ (Responded(r) /\ files[r].defined /\ ~UploadFailed(r)) =>
                  /\ Status(r) = 500
                  /\ Locations(req[r].geojson) = Thrown("Invalid Point coordinates")

C6_NaNWitness ==
    \E r \in Requests :
        /\ req[r].geojson = Str(GeoPointShort)
        /\ Responded(r) /\ Len(files[r].list) = 2 /\ ~UploadFailed(r)
        /\ Status(r) = 500

(***************************************************************************)
(* C7: in a collection that normalizes, locations has one entry per        *)
(* feature in input order, and the entry of a feature that is no Point is  *)
(* {type, coordinates} of its geometry with the coordinates unchanged.     *)
(***************************************************************************)
C7_PassThrough ==
    (result # <<>> /\ result[1].ok) =>
        LET fs == SubmittedFeatures(geojson)
            locs == result[1].locations
        IN  /\ Len(locs) = Len(fs)
            /\ \A i \in 1..Len(fs) :
                  /\ locs[i].type = fs[i].geometry.type
                  /\ fs[i].geometry.type # Str("Point") =>
                        locs[i] = [type |-> fs[i].geometry.type,
                                   coordinates |-> fs[i].geometry.coordinates]

C7_Witness ==
    /\ result # <<>> /\ result[1].ok
    /\ geojson = FeatureCollection(Features(<<"MultiPoint", "LineStringStr">>))
    /\ result[1].locations[2].coordinates.a[2].a[1] = Str("abc")

(***************************************************************************)
(* C8: no two uploaded files are assigned the same storage key, whatever   *)
(* the interleaving, also for equal names at the same clock reading.       *)
(***************************************************************************)
C8_KeysUnique ==
    \A r1 \in Requests : \A r2 \in Requests :
        \A i \in 1..Len(files[r1].list) : \A j \in 1..Len(files[r2].list) :
            <<r1, i>> # <<r2, j>> => files[r1].list[i].key # files[r2].list[j].key

(***************************************************************************)
(* C9, as claimed: a persisted Post read back has the submitted title and  *)
(* description, one image per submitted file in order, and one location    *)
(* per submitted feature in order.                                         *)
(***************************************************************************)
SameFilesAndFeatures(p, q) ==
    LET fs == SubmittedFeatures(q.geojson)
    IN  /\ Len(p.images) = Len(q.parts)
        /\ \A k \in 1..Len(p.images) : p.images[k].originalName = q.parts[k]
        /\ Len(p.locations) = Len(fs)
        /\ \A k \in 1..Len(p.locations) : p.locations[k].type = fs[k].geometry.type

C9_RoundTrip ==
    \A i \in 1..Len(posts) :
        LET p == posts[i]
            q == req[posts[i].by]
        IN  /\ p.title = q.title
            /\ p.description = q.description
            /\ SameFilesAndFeatures(p, q)

(***************************************************************************)
(* C9, amended: a persisted Post read back has the submitted title and     *)
(* description with leading and trailing white space removed, one image    *)
(* per submitted file in order, one location per submitted feature in      *)
(* order.                                                                  *)
(***************************************************************************)
C9_RoundTripTrimmed ==
    \A i \in 1..Len(posts) :
        LET p == posts[i]
            q == req[posts[i].by]
        IN  /\ p.title.t = "string" /\ q.title.t = "string"
            /\ IsTrimOf(p.title.c, q.title.c)
            /\ p.description.t = "string" /\ q.description.t = "string"
            /\ IsTrimOf(p.description.c, q.description.c)
            /\ SameFilesAndFeatures(p, q)

C9_Witness ==
    \E i \in 1..Len(posts) :
        /\ req[posts[i].by].title = Text(<<" ", "F", " ">>)
        /\ posts[i].title = Text(<<"F">>)
        /\ req[posts[i].by].geojson = Str(GeoPolygonPoint)
        /\ Len(posts[i].images) = 2
        /\ Len(posts[i].locations) = 2

(***************************************************************************)
(* C10: every persisted Post has a title and a description that are not    *)
(* blank, a user reference, an imageKey on every image, and on every       *)
(* location a type among Point, LineString, Polygon with coordinates       *)
(* present; a request with an unrecognized geometry type is forwarded by   *)
(* the normalizer and rejected at save, so it creates no Post.             *)
(***************************************************************************)
C10_StoreInvariant ==
    /\ \A i \in 1..Len(posts) :
          LET p == posts[i]
          IN  /\ ~Blank(p.title)
              /\ ~Blank(p.description)
              /\ p.user.t = "ObjectId"
              /\ \A k \in 1..Len(p.images) : p.images[k].imageKey # ""
              /\ \A k \in 1..Len(p.locations) :
                    /\ p.locations[k].type \in {Str("Point"), Str("LineString"), Str("Polygon")}
                    /\ p.locations[k].coordinates.t \notin {"undefined", "null"}
    /\ \A r \in Requests :
          req[r].geojson = Str(GeoMultiPoint) =>
              /\ PostsBy(r) = {}
              /\ Assembling(r) =>
                    /\ doc[r] # Undefined
                    /\ doc[r].locations[1].type = Str("MultiPoint")
                    /\ Responded(r) => Status(r) = 500

C10_Witness ==
    /\ Len(posts) = 1
    /\ Len(posts[1].locations) >= 1
    /\ \E r \in Requests :
          /\ req[r].geojson = Str(GeoMultiPoint)
          /\ ~Blank(req[r].title) /\ ~Blank(req[r].description)
          /\ req[r].userId = Str("64b7f0c2a1d3e4f5a6b7c8d9")
          /\ Assembling(r) /\ Responded(r)

====
